---- MODULE Spec2Model ----
(***************************************************************************)
(* Model of src/panfrost/lib/pan_layout.c: the image layout initializer    *)
(* (pan_image_layout_init), the checksum region sizer                      *)
(* (panfrost_compute_checksum_size) and the surface address resolver       *)
(* (pan_iview_get_surface, panfrost_texture_offset).                       *)
(*                                                                         *)
(* A resource starts with a zero-filled layout structure.  The layout is   *)
(* initialised once; on success surfaces are resolved from it any number   *)
(* of times.                                                               *)
(***************************************************************************)
EXTENDS Integers, Sequences, FiniteSets, TLC

VARIABLES
    pc,      \* "fresh" | "ready" | "resolved" | "failed": where the resource is in its life
    layout,  \* struct pan_image_layout of the resource
    args,    \* arguments of the pan_image_layout_init call (NoArgs before it)
    ret,     \* value returned by pan_image_layout_init
    sel,     \* arguments of the last pan_iview_get_surface call (NoSel before it)
    surf     \* struct pan_surface filled by the last pan_iview_get_surface call

vars == <<pc, layout, args, ret, sel, surf>>

----------------------------------------------------------------------------
(* Bounds of the model *)

MaxExtent == 17      \* largest width / height tried
MaxDepth == 3        \* largest depth tried
MaxArraySize == 2    \* largest array_size tried
MaxSamples == 2      \* largest nr_samples tried
MaxLevels == 3       \* largest nr_slices tried
MaxFirst == 1        \* largest first_level / first_layer of a view

(* Extents that sit below, on and above the 16 pixel tile edge. *)
Extents == {1, 16, MaxExtent}
Heights == {1, 16, MaxExtent}

----------------------------------------------------------------------------
(* Program constants *)

CHECKSUM_TILE_WIDTH == 16
CHECKSUM_TILE_HEIGHT == 16
CHECKSUM_BYTES_PER_TILE == 8
AFBC_HEADER_BYTES_PER_TILE == 16
CACHE_LINE == 64
PAGE_SIZE == 4096

(* A null explicit_layout pointer. *)
NULL == [present |-> FALSE, offset |-> 0, line_stride |-> 0]

MOD_LINEAR == "LINEAR"
MOD_TILED == "16X16_BLOCK_U_INTERLEAVED"
MOD_AFBC_16x16 == "AFBC_16x16"
MOD_AFBC_32x8 == "AFBC_32x8"
MOD_AFBC_64x4 == "AFBC_64x4"
Modifiers == {MOD_LINEAR, MOD_TILED, MOD_AFBC_16x16, MOD_AFBC_32x8, MOD_AFBC_64x4}

DIM_CUBE == "CUBE"
DIM_1D == "1D"
DIM_2D == "2D"
DIM_3D == "3D"
Dims == {DIM_1D, DIM_2D, DIM_3D}

CRC_NONE == "NONE"
CRC_INBAND == "INBAND"
CRC_OOB == "OOB"
CrcModes == {CRC_NONE, CRC_INBAND, CRC_OOB}

(* A pixel format is known to this file only through its block size in     *)
(* bytes and whether it is block-compressed.                               *)
FORMAT_NONE == [name |-> "NONE", blocksize |-> 0, compressed |-> FALSE]

Formats == { [name |-> "R8", blocksize |-> 1, compressed |-> FALSE],
             [name |-> "RGBA8", blocksize |-> 4, compressed |-> FALSE],
             [name |-> "ETC2_RGB8", blocksize |-> 8, compressed |-> TRUE] }

util_format_get_blocksize(format) == format.blocksize
util_format_is_compressed(format) == format.compressed

----------------------------------------------------------------------------
(* Arithmetic helpers *)

Max(a, b) == IF a >= b THEN a ELSE b

RECURSIVE Pow2(_)
Pow2(n) == IF n = 0 THEN 1 ELSE 2 * Pow2(n - 1)

ShiftRight(x, s) == x \div Pow2(s)

ALIGN_POT(x, pot_align) == ((x + pot_align - 1) \div pot_align) * pot_align

DIV_ROUND_UP(a, b) == (a + b - 1) \div b

u_minify(value, levels) == Max(1, ShiftRight(value, levels))

----------------------------------------------------------------------------
(* Block geometry *)

drm_is_afbc(modifier) == modifier \in {MOD_AFBC_16x16, MOD_AFBC_32x8, MOD_AFBC_64x4}

panfrost_afbc_superblock_size(modifier) ==
    CASE modifier = MOD_AFBC_16x16 -> [width |-> 16, height |-> 16]
      [] modifier = MOD_AFBC_32x8 -> [width |-> 32, height |-> 8]
      [] modifier = MOD_AFBC_64x4 -> [width |-> 64, height |-> 4]

panfrost_afbc_superblock_width(modifier) == panfrost_afbc_superblock_size(modifier).width

panfrost_afbc_superblock_height(modifier) == panfrost_afbc_superblock_size(modifier).height

panfrost_block_dim(modifier, width) ==
    IF ~drm_is_afbc(modifier) THEN 16
    ELSE IF width THEN panfrost_afbc_superblock_width(modifier)
    ELSE panfrost_afbc_superblock_height(modifier)

(* Header bytes of one 2D surface: a fixed byte count per superblock tile  *)
(* of the unaligned extent.                                                *)
panfrost_afbc_header_size(width, height) ==
    DIV_ROUND_UP(width, 16) * DIV_ROUND_UP(height, 16) * AFBC_HEADER_BYTES_PER_TILE

----------------------------------------------------------------------------
(* Checksum region sizer *)

ChecksumStride(width) ==
    DIV_ROUND_UP(width, CHECKSUM_TILE_WIDTH) * CHECKSUM_BYTES_PER_TILE

panfrost_compute_checksum_size(width, height) ==
    LET tile_count_y == DIV_ROUND_UP(height, CHECKSUM_TILE_HEIGHT)
        stride == ChecksumStride(width)
    IN  [stride |-> stride, size |-> stride * tile_count_y]

----------------------------------------------------------------------------
(* Layout structures *)

Levels == 0 .. (MaxLevels - 1)

ZeroSlice ==
    [offset |-> 0, line_stride |-> 0, row_stride |-> 0, surface_stride |-> 0,
     size |-> 0,
     afbc |-> [header_size |-> 0, body_size |-> 0, row_stride |-> 0,
               surface_stride |-> 0],
     crc |-> [offset |-> 0, stride |-> 0, size |-> 0]]

(* The zero-filled layout of a freshly allocated resource: every enum     *)
(* field holds the member whose value is 0.                                *)
ZeroLayout ==
    [modifier |-> MOD_LINEAR, format |-> FORMAT_NONE, dim |-> DIM_CUBE,
     width |-> 0, height |-> 0,
     depth |-> 0, array_size |-> 0, nr_samples |-> 0, nr_slices |-> 0,
     crc_mode |-> CRC_NONE, slices |-> [l \in Levels |-> ZeroSlice],
     array_stride |-> 0, data_size |-> 0, crc_size |-> 0]

----------------------------------------------------------------------------
(* pan_image_layout_init *)

ExplicitUnsupported_ForgetsLevels(a) ==
    /\ a.explicit_layout.present
    /\ \/ a.depth > 1
       \/ a.nr_samples > 1
       \/ a.array_size > 1
       \/ a.dim # DIM_2D
       \/ a.crc_mode = CRC_INBAND

(* Explicit stride only works with non-mipmap, non-array, single-sample    *)
(* 2D images, and in-band CRC cannot be used.                              *)
ExplicitUnsupported(a) ==
    /\ a.explicit_layout.present
    /\ \/ a.depth > 1
       \/ a.nr_samples > 1
       \/ a.array_size > 1
       \/ a.dim # DIM_2D
       \/ a.nr_slices > 1
       \/ a.crc_mode = CRC_INBAND

(* Mandate 64 byte alignment of the explicit offset: offset & 63. *)
ExplicitMisaligned(a) ==
    /\ a.explicit_layout.present
    /\ a.explicit_layout.offset % 64 # 0

(* The header fields written before the level loop. *)
WriteHeader(lay, a) ==
    [lay EXCEPT !.crc_mode = a.crc_mode, !.modifier = a.modifier,
                !.format = a.format, !.dim = a.dim, !.width = a.width,
                !.height = a.height, !.depth = a.depth,
                !.array_size = a.array_size, !.nr_samples = a.nr_samples,
                !.nr_slices = a.nr_slices]

ShouldAlign(modifier) == modifier = MOD_TILED \/ drm_is_afbc(modifier)

TileW(modifier) == IF ShouldAlign(modifier) THEN panfrost_block_dim(modifier, TRUE) ELSE 1

TileH(modifier) == IF ShouldAlign(modifier) THEN panfrost_block_dim(modifier, FALSE) ELSE 1

TileShift(modifier, format) ==
    IF ShouldAlign(modifier) /\ util_format_is_compressed(format) THEN 2 ELSE 0

(* effective_width / effective_height of a level *)
EffectiveExtent(extent, tile, shift, should_align) ==
    IF should_align THEN ShiftRight(ALIGN_POT(extent, tile), shift) ELSE extent

(* Levels are aligned to the cache line. *)
SliceOffset(offset) == ALIGN_POT(offset, CACHE_LINE)

LineStride_NoLinearAlign(a, stride) ==
    IF a.explicit_layout.present THEN a.explicit_layout.line_stride ELSE stride

(* The line stride of a level, from the would-be stride. *)
LineStride(a, stride) ==
    IF a.explicit_layout.present THEN a.explicit_layout.line_stride
    ELSE IF a.modifier = MOD_LINEAR THEN ALIGN_POT(stride, CACHE_LINE)
    ELSE stride

AfbcSizes_HeadersAdvanceOnce(a, width, height, effective_width, effective_depth, slice_one_size) ==
    LET header_one == panfrost_afbc_header_size(width, height)
        row_stride == (effective_width \div TileW(a.modifier)) * AFBC_HEADER_BYTES_PER_TILE
    IN  IF a.dim = DIM_3D
        THEN [afbc |-> [header_size |-> header_one * effective_depth,
                        body_size |-> slice_one_size * effective_depth,
                        row_stride |-> row_stride,
                        surface_stride |-> header_one],
              advance |-> header_one,
              slice_one_size |-> slice_one_size]
        ELSE [afbc |-> [header_size |-> header_one,
                        body_size |-> slice_one_size,
                        row_stride |-> row_stride,
                        surface_stride |-> slice_one_size + header_one],
              advance |-> 0,
              slice_one_size |-> slice_one_size + header_one]

(* AFBC sizes of a level: the afbc fields, the bytes the running offset    *)
(* advances by at once, and the size of one surface.                       *)
AfbcSizes(a, width, height, effective_width, effective_depth, slice_one_size) ==
    LET header_one == panfrost_afbc_header_size(width, height)
        row_stride == (effective_width \div TileW(a.modifier)) * AFBC_HEADER_BYTES_PER_TILE
    IN  IF a.dim = DIM_3D
        THEN [afbc |-> [header_size |-> header_one * effective_depth,
                        body_size |-> slice_one_size * effective_depth,
                        row_stride |-> row_stride,
                        surface_stride |-> header_one],
              advance |-> header_one * effective_depth,
              slice_one_size |-> slice_one_size]
        ELSE [afbc |-> [header_size |-> header_one,
                        body_size |-> slice_one_size,
                        row_stride |-> row_stride,
                        surface_stride |-> slice_one_size + header_one],
              advance |-> 0,
              slice_one_size |-> slice_one_size + header_one]

CrcExtent_Effective(extent, effective_extent) == effective_extent

(* The width / height handed to the checksum sizer at a level: the loop's  *)
(* width / height, minified once per finished level, not the tile-aligned  *)
(* effective one.                                                          *)
CrcExtent(extent, effective_extent) == extent

CrcPlace_OobAdvancesOffset(crc_mode, offset, oob_crc_offset, crc_size) ==
    IF crc_mode = CRC_INBAND
    THEN [crc_offset |-> offset, offset |-> offset + crc_size,
          oob_crc_offset |-> oob_crc_offset, size_add |-> crc_size]
    ELSE [crc_offset |-> oob_crc_offset, offset |-> offset + crc_size,
          oob_crc_offset |-> oob_crc_offset + crc_size, size_add |-> 0]

(* Where the checksum region of a level goes, given the running offsets    *)
(* after the level's pixel data: the crc offset and both offsets after.    *)
CrcPlace(crc_mode, offset, oob_crc_offset, crc_size) ==
    IF crc_mode = CRC_INBAND
    THEN [crc_offset |-> offset, offset |-> offset + crc_size,
          oob_crc_offset |-> oob_crc_offset, size_add |-> crc_size]
    ELSE [crc_offset |-> oob_crc_offset, offset |-> offset,
          oob_crc_offset |-> oob_crc_offset + crc_size, size_add |-> 0]

(* One pass of the level loop.  st holds the layout written so far, the    *)
(* loop variables and whether the function has returned false.             *)
LevelBody(st, a) ==
    LET l == st.l
        afbc == drm_is_afbc(a.modifier)
        should_align == ShouldAlign(a.modifier)
        tile_w == TileW(a.modifier)
        tile_h == TileH(a.modifier)
        tile_shift == TileShift(a.modifier, a.format)
        bytes_per_pixel == util_format_get_blocksize(a.format)
        effective_width == EffectiveExtent(st.width, tile_w, tile_shift, should_align)
        effective_height == EffectiveExtent(st.height, tile_h, tile_shift, should_align)
        effective_depth == st.depth
        offset0 == SliceOffset(st.offset)
        would_be == bytes_per_pixel * effective_width
        stride == LineStride(a, would_be)
        row_stride == stride * ShiftRight(tile_h, tile_shift)
        body_one == stride * effective_height
        az == AfbcSizes(a, st.width, st.height, effective_width, effective_depth, body_one)
        slice_one_size == IF afbc THEN az.slice_one_size ELSE body_one
        offset1 == IF afbc THEN offset0 + az.advance ELSE offset0
        slice_full_size == slice_one_size * effective_depth * a.nr_samples
        offset2 == offset1 + slice_full_size
        crc == panfrost_compute_checksum_size(CrcExtent(st.width, effective_width),
                                              CrcExtent(st.height, effective_height))
        cp == CrcPlace(a.crc_mode, offset2, st.oob_crc_offset, crc.size)
        old == st.layout.slices[l]
        slice == [offset |-> offset0,
                  line_stride |-> stride,
                  row_stride |-> row_stride,
                  surface_stride |-> slice_one_size,
                  size |-> IF a.crc_mode # CRC_NONE THEN slice_full_size + cp.size_add
                           ELSE slice_full_size,
                  afbc |-> IF afbc THEN az.afbc ELSE old.afbc,
                  crc |-> IF a.crc_mode # CRC_NONE
                          THEN [offset |-> cp.crc_offset, stride |-> crc.stride,
                                size |-> crc.size]
                          ELSE old.crc]
    IN  IF a.explicit_layout.present /\ a.explicit_layout.line_stride < would_be
        THEN [st EXCEPT !.layout.slices[l].offset = offset0, !.returned_false = TRUE]
        ELSE [layout |-> [st.layout EXCEPT !.slices[l] = slice],
              l |-> l + 1,
              offset |-> IF a.crc_mode # CRC_NONE THEN cp.offset ELSE offset2,
              oob_crc_offset |-> IF a.crc_mode # CRC_NONE THEN cp.oob_crc_offset
                                 ELSE st.oob_crc_offset,
              width |-> u_minify(st.width, 1),
              height |-> u_minify(st.height, 1),
              depth |-> u_minify(st.depth, 1),
              returned_false |-> FALSE]

RECURSIVE LevelLoop(_, _)
LevelLoop(st, a) ==
    IF st.returned_false \/ st.l >= a.nr_slices THEN st
    ELSE LevelLoop(LevelBody(st, a), a)

(* Arrays and cubemaps have the entire miptree duplicated. *)
ArrayStride(offset) == ALIGN_POT(offset, CACHE_LINE)

DataSize_AlwaysPageAligned(a, offset, array_stride) ==
    ALIGN_POT(array_stride * a.array_size, PAGE_SIZE)

DataSize_OneLayer(a, offset, array_stride) ==
    IF a.explicit_layout.present THEN offset
    ELSE ALIGN_POT(array_stride, PAGE_SIZE)

DataSize(a, offset, array_stride) ==
    IF a.explicit_layout.present THEN offset
    ELSE ALIGN_POT(array_stride * a.array_size, PAGE_SIZE)

(* The whole call: the value returned and the layout structure after it. *)
pan_image_layout_init(lay, a) ==
    IF ExplicitUnsupported(a) THEN [ret |-> FALSE, layout |-> lay]
    ELSE IF ExplicitMisaligned(a) THEN [ret |-> FALSE, layout |-> lay]
    ELSE
      LET st0 == [layout |-> WriteHeader(lay, a), l |-> 0,
                  offset |-> IF a.explicit_layout.present THEN a.explicit_layout.offset
                             ELSE 0,
                  oob_crc_offset |-> 0,
                  width |-> a.width, height |-> a.height, depth |-> a.depth,
                  returned_false |-> FALSE]
          st == LevelLoop(st0, a)
          array_stride == ArrayStride(st.offset)
      IN  IF st.returned_false THEN [ret |-> FALSE, layout |-> st.layout]
          ELSE [ret |-> TRUE,
                layout |-> [st.layout EXCEPT
                              !.array_stride = array_stride,
                              !.data_size = DataSize(a, st.offset, array_stride),
                              !.crc_size = st.oob_crc_offset]]

----------------------------------------------------------------------------
(* Address resolver *)

panfrost_get_layer_stride(lay, level) ==
    IF lay.dim # DIM_3D THEN lay.array_stride
    ELSE IF drm_is_afbc(lay.modifier) THEN lay.slices[level].afbc.surface_stride
    ELSE lay.slices[level].surface_stride

panfrost_texture_offset_Swapped(lay, level, array_idx, surface_idx) ==
    lay.slices[level].offset
        + (surface_idx * lay.array_stride)
        + (array_idx * lay.slices[level].surface_stride)

panfrost_texture_offset(lay, level, array_idx, surface_idx) ==
    lay.slices[level].offset
        + (array_idx * lay.array_stride)
        + (surface_idx * lay.slices[level].surface_stride)

(* Header and body address of a 3D block-compressed depth slice. *)
Afbc3DHeader(base, slice, layer) ==
    base + slice.offset + (layer * slice.afbc.surface_stride)

Afbc3DBody_NoHeaders(base, slice, layer) ==
    base + slice.offset + (slice.surface_stride * layer)

Afbc3DBody(base, slice, layer) ==
    base + slice.offset + slice.afbc.header_size + (slice.surface_stride * layer)

(* iview: [base, first_level, first_layer].  The result holds the fields   *)
(* of struct pan_surface the call writes; the others stay 0.               *)
pan_iview_get_surface(lay, iview, level0, layer0, sample) ==
    LET level == level0 + iview.first_level
        layer == layer0 + iview.first_layer
        is_3d == lay.dim = DIM_3D
        slice == lay.slices[level]
        base == iview.base
    IN  IF drm_is_afbc(lay.modifier)
        THEN IF is_3d
             THEN [kind |-> "afbc", data |-> 0,
                   header |-> Afbc3DHeader(base, slice, layer),
                   body |-> Afbc3DBody(base, slice, layer)]
             ELSE LET header == base + panfrost_texture_offset(lay, level, layer, 0)
                  IN  [kind |-> "afbc", data |-> 0, header |-> header,
                       body |-> header + slice.afbc.header_size]
        ELSE LET array_idx == IF is_3d THEN 0 ELSE layer
                 surface_idx == IF is_3d THEN layer ELSE sample
             IN  [kind |-> "data",
                  data |-> base + panfrost_texture_offset(lay, level, array_idx, surface_idx),
                  header |-> 0, body |-> 0]

(* What the asserts of pan_iview_get_surface and its contract ask of the   *)
(* caller.                                                                 *)
SurfacePrecondition(lay, iview, level0, layer0, sample) ==
    LET level == level0 + iview.first_level
        layer == layer0 + iview.first_layer
    IN  /\ level < lay.nr_slices
        /\ IF lay.dim = DIM_3D THEN layer < u_minify(lay.depth, level)
           ELSE layer < lay.array_size
        /\ sample < lay.nr_samples
        /\ drm_is_afbc(lay.modifier) => sample = 0

----------------------------------------------------------------------------
(* The calls a resource sees *)

RECURSIVE MipCount(_)
MipCount(extent) == IF extent <= 1 THEN 1 ELSE 1 + MipCount(extent \div 2)

ExplicitLayouts ==
    [present : {TRUE}, offset : {32, 64}, line_stride : {16, 128}]

(* The argument lists callers pass: 1D images are one pixel high, only 3D  *)
(* images are deep, 3D images are neither arrays nor multisampled, and a   *)
(* mip chain is no longer than the base size allows.                       *)
InitArgs ==
    { a \in [modifier : Modifiers, format : Formats, dim : Dims,
             width : Extents, height : Heights, depth : 1 .. MaxDepth,
             array_size : 1 .. MaxArraySize, nr_samples : 1 .. MaxSamples,
             nr_slices : 1 .. MaxLevels, crc_mode : CrcModes,
             explicit_layout : {NULL} \cup ExplicitLayouts] :
        /\ a.dim = DIM_1D => a.height = 1 /\ a.nr_samples = 1
        /\ a.dim # DIM_3D => a.depth = 1
        /\ a.dim = DIM_3D => a.array_size = 1 /\ a.nr_samples = 1
        /\ a.nr_slices <= MipCount(Max(a.width, Max(a.height, a.depth))) }

Views == [base : {0, 4096}, first_level : 0 .. MaxFirst, first_layer : 0 .. MaxFirst]

NoSurface == [kind |-> "none", data |-> 0, header |-> 0, body |-> 0]

NoArgs ==
    [modifier |-> MOD_LINEAR, format |-> FORMAT_NONE, dim |-> DIM_CUBE, width |-> 0,
     height |-> 0, depth |-> 0, array_size |-> 0, nr_samples |-> 0, nr_slices |-> 0,
     crc_mode |-> CRC_NONE, explicit_layout |-> NULL]

NoSel ==
    [iview |-> [base |-> 0, first_level |-> 0, first_layer |-> 0],
     level |-> 0, layer |-> 0, sample |-> 0]

Init ==
    /\ pc = "fresh"
    /\ layout = ZeroLayout
    /\ args = NoArgs
    /\ ret = FALSE
    /\ sel = NoSel
    /\ surf = NoSurface

(* The resource is created or imported: its layout is initialised. *)
ImageLayoutInit ==
    /\ pc = "fresh"
    /\ \E a \in InitArgs :
         LET r == pan_image_layout_init(layout, a)
         IN  /\ args' = a
             /\ ret' = r.ret
             /\ layout' = r.layout
             /\ pc' = IF r.ret THEN "ready" ELSE "failed"
    /\ UNCHANGED <<sel, surf>>

(* A view of the resource resolves one surface. *)
GetSurface ==
    /\ pc = "ready"
    /\ \E iview \in Views, level \in Levels, layer \in 0 .. (MaxDepth + MaxArraySize),
          sample \in 0 .. (MaxSamples - 1) :
         /\ SurfacePrecondition(layout, iview, level, layer, sample)
         /\ sel' = [iview |-> iview, level |-> level, layer |-> layer, sample |-> sample]
         /\ surf' = pan_iview_get_surface(layout, iview, level, layer, sample)
         /\ pc' = "resolved"
    /\ UNCHANGED <<layout, args, ret>>

(* The caller has consumed the resolved surface and is ready to resolve    *)
(* the next one.                                                           *)
SurfaceConsumed ==
    /\ pc = "resolved"
    /\ pc' = "ready"
    /\ sel' = NoSel
    /\ surf' = NoSurface
    /\ UNCHANGED <<layout, args, ret>>

Next == ImageLayoutInit \/ GetSurface \/ SurfaceConsumed

Spec == Init /\ [][Next]_vars

----------------------------------------------------------------------------
(* Properties of pan_image_layout_init *)

Called == pc \in {"ready", "failed"}

Accepted == pc = "ready"

HasExplicit == args.explicit_layout.present

(* bytes_per_pixel x the width of level 0 as the layout aligns it *)
MinLineStride(a) ==
    util_format_get_blocksize(a.format)
        * EffectiveExtent(a.width, TileW(a.modifier), TileShift(a.modifier, a.format),
                          ShouldAlign(a.modifier))

(* C1: with an explicit layout the call fails exactly when depth > 1, or   *)
(* nr_samples > 1, or array_size > 1, or dim is not 2D, or nr_slices > 1,  *)
(* or crc_mode is inline, or the explicit offset is not a multiple of 64,  *)
(* or the explicit line stride is below bytes_per_pixel x the aligned      *)
(* width; without an explicit layout it always succeeds.                   *)
C1_ExplicitRejection ==
    Called =>
        (ret = FALSE <=>
            /\ HasExplicit
            /\ \/ args.depth > 1
               \/ args.nr_samples > 1
               \/ args.array_size > 1
               \/ args.dim # DIM_2D
               \/ args.nr_slices > 1
               \/ args.crc_mode = CRC_INBAND
               \/ args.explicit_layout.offset % 64 # 0
               \/ args.explicit_layout.line_stride < MinLineStride(args))

(* An explicit layout with two levels and nothing else wrong is refused. *)
C1_Witness ==
    /\ pc = "failed"
    /\ HasExplicit
    /\ args.nr_slices = 2
    /\ args.depth = 1 /\ args.nr_samples = 1 /\ args.array_size = 1
    /\ args.dim = DIM_2D /\ args.crc_mode # CRC_INBAND
    /\ args.explicit_layout.offset % 64 = 0
    /\ args.explicit_layout.line_stride >= MinLineStride(args)

(* C2: a failing call leaves every field of the caller's layout structure  *)
(* as it was before the call.                                              *)
C2_NoPartialLayout ==
    [][(pc = "fresh" /\ pc' = "failed") => layout' = layout]_vars

(* C3: for an accepted configuration array_stride is a multiple of 64;     *)
(* without an explicit layout data_size is a multiple of 4096 and at least *)
(* array_stride x array_size; with one, data_size is the explicit offset   *)
(* plus the bytes of the single level, unaligned.                          *)
C3_StrideAndSizeAlignment ==
    Accepted =>
        /\ layout.array_stride % 64 = 0
        /\ ~HasExplicit =>
              /\ layout.data_size % 4096 = 0
              /\ layout.data_size >= layout.array_stride * layout.array_size
        /\ HasExplicit =>
              layout.data_size = args.explicit_layout.offset + layout.slices[0].size

(* An accepted explicit layout whose total size is not a multiple of 64. *)
C3_Witness ==
    /\ Accepted
    /\ HasExplicit
    /\ layout.data_size % 64 # 0
    /\ layout.slices[0].size > 0

(* Bytes of level l that precede its pixel data: the headers of all depth  *)
(* slices of a 3D block-compressed level.                                  *)
LeadingHeaders(lay, l) ==
    IF drm_is_afbc(lay.modifier) /\ lay.dim = DIM_3D
    THEN lay.slices[l].afbc.header_size ELSE 0

(* Where the bytes of level l end. *)
LevelEnd(lay, l) == lay.slices[l].offset + LeadingHeaders(lay, l) + lay.slices[l].size

(* Where the next level, or for the last level the next array slot, starts *)
LevelLimit(lay, l) ==
    IF l + 1 < lay.nr_slices THEN lay.slices[l + 1].offset ELSE lay.array_stride

(* C4: in an accepted layout every level offset is a multiple of 64,       *)
(* offsets do not decrease from a level to the next, and all bytes of a    *)
(* level (headers, pixel data, inline checksum region) end at or before    *)
(* the next level's offset; the last level ends at or before array_stride. *)
C4_LevelsDoNotOverlap ==
    Accepted =>
        \A l \in 0 .. (layout.nr_slices - 1) :
            /\ layout.slices[l].offset % 64 = 0
            /\ layout.slices[l].offset <= LevelLimit(layout, l)
            /\ LevelEnd(layout, l) <= LevelLimit(layout, l)
            /\ layout.crc_mode = CRC_INBAND =>
                  /\ layout.slices[l].crc.offset >=
                        layout.slices[l].offset + LeadingHeaders(layout, l)
                  /\ layout.slices[l].crc.offset + layout.slices[l].crc.size
                        <= LevelLimit(layout, l)

(* A 3D block-compressed mip chain with inline checksums. *)
C4_Witness ==
    /\ Accepted
    /\ layout.nr_slices >= 2
    /\ drm_is_afbc(layout.modifier)
    /\ layout.dim = DIM_3D
    /\ layout.depth >= 2
    /\ layout.crc_mode = CRC_INBAND
    /\ layout.slices[1].offset > layout.slices[0].offset

LinearSingle ==
    /\ Accepted
    /\ args.modifier = MOD_LINEAR
    /\ args.nr_slices = 1
    /\ args.array_size = 1
    /\ ~HasExplicit

LinearSizes ==
    /\ layout.slices[0].line_stride =
          ALIGN_POT(args.width * util_format_get_blocksize(args.format), 64)
    /\ layout.slices[0].size = layout.slices[0].line_stride * args.height

(* C5 as stated: a linear, single-level, single-layer image without an     *)
(* explicit layout has line_stride = align64(W x B) and size =             *)
(* line_stride x H.                                                        *)
C5_Original == LinearSingle => LinearSizes

(* C5 amended: the same, for an image that also has one sample, depth 1    *)
(* and no inline checksum.                                                 *)
C5_LinearStrideAndSize ==
    (/\ LinearSingle
     /\ args.nr_samples = 1
     /\ args.depth = 1
     /\ args.crc_mode # CRC_INBAND) => LinearSizes

(* A 17 pixel wide RGBA8 line: 68 bytes are rounded up to 128. *)
C5_Witness ==
    /\ LinearSingle
    /\ args.nr_samples = 1 /\ args.depth = 1 /\ args.crc_mode # CRC_INBAND
    /\ args.width = 17 /\ args.height = 16
    /\ util_format_get_blocksize(args.format) = 4
    /\ layout.slices[0].line_stride = 128

----------------------------------------------------------------------------
(* Properties of the checksum placement *)

(* Pixel bytes of level l: one surface per depth slice and sample. *)
PixelBytes(lay, l) ==
    lay.slices[l].surface_stride * u_minify(lay.depth, l) * lay.nr_samples

(* 8 bytes per 16x16 tile of a width x height extent *)
ChecksumBytes(width, height) == 8 * DIV_ROUND_UP(width, 16) * DIV_ROUND_UP(height, 16)

(* Offset, running offset and level size of an inline checksum region. *)
InlineCrcPlacement(l) ==
    /\ layout.slices[l].crc.offset =
          layout.slices[l].offset + LeadingHeaders(layout, l) + PixelBytes(layout, l)
    /\ LevelEnd(layout, l) = layout.slices[l].crc.offset + layout.slices[l].crc.size
    /\ layout.slices[l].size = PixelBytes(layout, l) + layout.slices[l].crc.size

(* C8 as stated: with inline checksums every level's crc.size is the       *)
(* checksum size of the image's original width and height, before          *)
(* minification; crc.offset is the running offset right after the level's  *)
(* pixel data, and the level size is pixel bytes + crc.size.               *)
C8_Original ==
    (Accepted /\ layout.crc_mode = CRC_INBAND) =>
        \A l \in 0 .. (layout.nr_slices - 1) :
            /\ layout.slices[l].crc.size = ChecksumBytes(layout.width, layout.height)
            /\ InlineCrcPlacement(l)

(* C8 amended: every level's crc.size is the checksum size of the width    *)
(* and height minified to that level, before tile alignment; the           *)
(* placement is as stated.                                                 *)
C8_InlineChecksum ==
    (Accepted /\ layout.crc_mode = CRC_INBAND) =>
        \A l \in 0 .. (layout.nr_slices - 1) :
            /\ layout.slices[l].crc.size =
                  ChecksumBytes(u_minify(layout.width, l), u_minify(layout.height, l))
            /\ InlineCrcPlacement(l)

(* A 17x17 chain: level 0 has four checksum tiles, level 1 (8x8) has one. *)
C8_Witness ==
    /\ Accepted
    /\ layout.crc_mode = CRC_INBAND
    /\ layout.nr_slices >= 2
    /\ layout.width = 17 /\ layout.height = 17
    /\ layout.slices[0].crc.size = 32
    /\ layout.slices[1].crc.size = 8

RECURSIVE CrcSizeBefore(_, _)
CrcSizeBefore(lay, l) ==
    IF l = 0 THEN 0 ELSE CrcSizeBefore(lay, l - 1) + lay.slices[l - 1].crc.size

(* The layout the same arguments give with checksum mode none. *)
LayoutWithoutCrc ==
    pan_image_layout_init(ZeroLayout, [args EXCEPT !.crc_mode = CRC_NONE]).layout

(* C9: with out-of-band checksums crc.offset of level 0 is 0, crc.offset   *)
(* of level l is the sum of crc.size over the levels before it, crc_size   *)
(* is the sum over all levels, and every level offset, size and stride,    *)
(* array_stride and data_size equal those computed with checksum mode      *)
(* none, for which crc_size is 0.                                          *)
C9_OutOfBandChecksum ==
    (Accepted /\ layout.crc_mode = CRC_OOB) =>
        LET none == LayoutWithoutCrc
        IN  /\ layout.slices[0].crc.offset = 0
            /\ \A l \in 0 .. (layout.nr_slices - 1) :
                  /\ layout.slices[l].crc.offset = CrcSizeBefore(layout, l)
                  /\ layout.slices[l].offset = none.slices[l].offset
                  /\ layout.slices[l].size = none.slices[l].size
                  /\ layout.slices[l].line_stride = none.slices[l].line_stride
                  /\ layout.slices[l].row_stride = none.slices[l].row_stride
                  /\ layout.slices[l].surface_stride = none.slices[l].surface_stride
            /\ layout.crc_size = CrcSizeBefore(layout, layout.nr_slices)
            /\ layout.array_stride = none.array_stride
            /\ layout.data_size = none.data_size
            /\ none.crc_size = 0

(* A mip chain whose side buffer holds more than one level's checksums. *)
C9_Witness ==
    /\ Accepted
    /\ layout.crc_mode = CRC_OOB
    /\ layout.nr_slices >= 2
    /\ layout.slices[1].crc.offset > 0
    /\ layout.crc_size > layout.slices[1].crc.offset

----------------------------------------------------------------------------
(* Properties of pan_iview_get_surface *)

Resolved == pc = "resolved"

SelLevel == sel.level + sel.iview.first_level

SelLayer == sel.layer + sel.iview.first_layer

(* C6: for a layout that is not block-compressed and not 3D the resolver   *)
(* returns base + slices[level'].offset + layer' x array_stride +          *)
(* sample x slices[level'].surface_stride, so the next layer is exactly    *)
(* array_stride further; for a 3D one the layer multiplies surface_stride  *)
(* and the array term is 0.                                                *)
C6_PlainSurfaceAddress ==
    (Resolved /\ ~drm_is_afbc(layout.modifier)) =>
        /\ surf.kind = "data"
        /\ layout.dim # DIM_3D =>
              /\ surf.data = sel.iview.base
                               + layout.slices[SelLevel].offset
                               + SelLayer * layout.array_stride
                               + sel.sample * layout.slices[SelLevel].surface_stride
              /\ SelLayer + 1 < layout.array_size =>
                    pan_iview_get_surface(layout, sel.iview, sel.level, sel.layer + 1,
                                          sel.sample).data
                        = surf.data + layout.array_stride
        /\ layout.dim = DIM_3D =>
              surf.data = sel.iview.base
                            + layout.slices[SelLevel].offset
                            + SelLayer * layout.slices[SelLevel].surface_stride

(* Layer 1 and sample 1 of a multisampled array, resolved through a view   *)
(* that starts at layer 1.                                                 *)
C6_Witness ==
    /\ Resolved
    /\ ~drm_is_afbc(layout.modifier)
    /\ layout.dim = DIM_2D
    /\ layout.array_size = 2
    /\ sel.iview.first_layer = 1 /\ sel.layer = 0
    /\ sel.sample = 1
    /\ sel.iview.base > 0
    /\ surf.data > sel.iview.base + layout.array_stride

(* C7: in a block-compressed 3D layout, at every level with minified depth *)
(* d, afbc.header_size is d x afbc.surface_stride (the per-slice header    *)
(* size) and afbc.body_size is d x the per-slice body size; depth slice k  *)
(* resolves to header = base + offset + k x afbc.surface_stride and body = *)
(* base + offset + afbc.header_size + k x surface_stride, at or after the  *)
(* end of all the level's headers.                                         *)
C7_Afbc3DHeadersFirst ==
    (Resolved /\ drm_is_afbc(layout.modifier) /\ layout.dim = DIM_3D) =>
        /\ \A l \in 0 .. (layout.nr_slices - 1) :
              LET d == u_minify(layout.depth, l)
                  s == layout.slices[l]
              IN  /\ s.afbc.header_size = d * s.afbc.surface_stride
                  /\ s.afbc.body_size = d * s.surface_stride
                  /\ s.afbc.surface_stride =
                        panfrost_afbc_header_size(u_minify(layout.width, l),
                                                  u_minify(layout.height, l))
                  /\ s.surface_stride > 0
        /\ LET s == layout.slices[SelLevel]
               start == sel.iview.base + s.offset
           IN  /\ surf.kind = "afbc"
               /\ surf.header = start + SelLayer * s.afbc.surface_stride
               /\ surf.body = start + s.afbc.header_size + SelLayer * s.surface_stride
               /\ surf.body >= start + s.afbc.header_size
               /\ surf.header + s.afbc.surface_stride <= start + s.afbc.header_size

(* Depth slice 1 of a block-compressed 3D image. *)
C7_Witness ==
    /\ Resolved
    /\ drm_is_afbc(layout.modifier)
    /\ layout.dim = DIM_3D
    /\ layout.depth >= 2
    /\ SelLayer = 1
    /\ surf.body = sel.iview.base + layout.slices[SelLevel].offset
                     + layout.slices[SelLevel].afbc.header_size
                     + layout.slices[SelLevel].surface_stride

(* Bytes of the header and of the body of one block-compressed surface. *)
SurfaceHeaderBytes(lay, l) ==
    IF lay.dim = DIM_3D THEN lay.slices[l].afbc.surface_stride
    ELSE lay.slices[l].afbc.header_size

SurfaceBodyBytes(lay, l) ==
    IF lay.dim = DIM_3D THEN lay.slices[l].surface_stride
    ELSE lay.slices[l].afbc.body_size

(* C10: every address the resolver returns for a selector that meets its   *)
(* preconditions is, relative to base, at least 0, and the surface it      *)
(* denotes ends at or before data_size.                                    *)
C10_SurfacesInsideAllocation ==
    Resolved =>
        LET base == sel.iview.base
            l == SelLevel
        IN  /\ surf.kind = "data" =>
                  /\ surf.data - base >= 0
                  /\ surf.data - base + layout.slices[l].surface_stride <= layout.data_size
            /\ surf.kind = "afbc" =>
                  /\ surf.header - base >= 0
                  /\ surf.header - base + SurfaceHeaderBytes(layout, l) <= layout.data_size
                  /\ surf.body - base >= 0
                  /\ surf.body - base + SurfaceBodyBytes(layout, l) <= layout.data_size

(* The last sample of the last layer of the last level of an array. *)
C10_Witness ==
    /\ Resolved
    /\ layout.array_size = 2
    /\ SelLayer = 1
    /\ layout.nr_samples = 2
    /\ sel.sample = 1
    /\ SelLevel = layout.nr_slices - 1
    /\ surf.kind = "data"
    /\ surf.data - sel.iview.base + layout.slices[SelLevel].surface_stride
          > layout.array_stride

====
